---- MODULE Spec2Model ----
(***************************************************************************)
(* Atlas Codex: the crawl worker (workers/browser-worker.py, crawl_site)   *)
(* and the scrapling service (packages/core/src/scrapling-service.py,      *)
(* scrape / update_adaptive_selector and the adaptive selector store).     *)
(*                                                                         *)
(* A URL, a pattern and a selector are Python strings.  A string is        *)
(* modelled as a sequence of characters so that `p in url` (substring) and *)
(* url.startswith(p) are computed, not assumed.                            *)
(***************************************************************************)
EXTENDS Integers, Sequences, FiniteSets, TLC

VARIABLES
    \* ---- crawl_site (browser-worker.py) ----
    crawl_pc,       \* "idle" (not called), "loop" (at the while test), "done" (returned)
    options,        \* the call's arguments: start_url and the options dict
    visited,        \* visited = set()
    to_visit,       \* to_visit = [start_url]
    results,        \* results = []
    fetched,        \* history: the urls passed to scrape_page.remote, in call order
    popped,         \* history: the urls returned by to_visit.pop(0), in order
    enqueued,       \* history: the urls put into to_visit, in the order they were put
    report,         \* the returned dict
    \* ---- scrapling-service.py ----
    adaptive_store, \* adaptive_store: Dict[str, Dict[str, AdaptiveSelector]]
    pc,             \* "idle", "fetching" (scrape at its page fetch), "responded"
    request,        \* the ScraplingRequest being served
    page,           \* what the fetch produced for the request
    response,       \* the ScraplingResponse the handler returned
    prev_store,     \* history: adaptive_store when the handler resumed after the fetch
    lookups,        \* history: the keys whose stored mapping the request looked up
    n_updates,      \* history: number of update calls so far, counted up to MaxUpdates
    inflight,       \* the requests of the scrape handlers suspended at `await fetch`
    last_write      \* history: per (site, field) the value the latest assignment stored

crawl_vars == <<crawl_pc, options, visited, to_visit, results, fetched, popped,
                enqueued, report>>
scrape_vars == <<adaptive_store, pc, request, page, response, prev_store, lookups,
                n_updates, inflight, last_write>>
vars == <<crawl_pc, options, visited, to_visit, results, fetched, popped, enqueued, report,
          adaptive_store, pc, request, page, response, prev_store, lookups, n_updates,
          inflight, last_write>>

(***************************************************************************)
(* Bounds of the model.                                                    *)
(***************************************************************************)
MaxPages == 3       \* options['maxPages'] ranges over 0..MaxPages
MaxLinks == 2       \* a fetched page returns at most MaxLinks links
MaxMatches == 2     \* a selector matches at most MaxMatches elements of a page
MaxUpdates == 2     \* update calls are counted up to MaxUpdates (their number is not limited)
MaxHandlers == 2    \* at most MaxHandlers scrape handlers are suspended at their fetch

(***************************************************************************)
(* Python string operations on sequences of characters.                    *)
(***************************************************************************)
\* pattern in url
Contains(url, pattern) ==
    \E i \in 0..(Len(url) - Len(pattern)) :
        SubSeq(url, i + 1, i + Len(pattern)) = pattern

\* mutant of StartsWith: the scope test left out
StartsWithAny(href, prefix) == TRUE

\* href.startswith(prefix)
StartsWith(href, prefix) ==
    /\ Len(prefix) <= Len(href)
    /\ SubSeq(href, 1, Len(prefix)) = prefix

\* any(pattern in url for pattern in patterns)
AnyPatternIn(patterns, url) ==
    \E k \in 1..Len(patterns) : Contains(url, patterns[k])

\* all sequences over S of length at most n
SeqsUpTo(S, n) == UNION {[1..k -> S] : k \in 0..n}

(***************************************************************************)
(* crawl_site                                                              *)
(***************************************************************************)
\* "h" stands for the site's prefix, "o" for another origin, "a", "b" and "c"
\* for path segments such as /admin and /blog.
Urls == {<<"h">>, <<"h", "b">>, <<"h", "b", "a">>, <<"h", "b", "c">>, <<"o", "a">>}
StartUrls == {<<"h">>, <<"h", "b">>}
PatternLists == {<<>>, <<<<"a">>>>, <<<<"b">>>>, <<<<"a">>, <<"b">>>>}

\* page_data['links']: None unless 'links' is among options['formats'] (has_links
\* is then FALSE), else the list of the page's hrefs, which are strings
PageLinks == {[has_links |-> FALSE, hrefs |-> <<>>]}
             \cup {[has_links |-> TRUE, hrefs |-> l] : l \in SeqsUpTo(Urls, MaxLinks)}

NoOptions == [start_url |-> <<>>, maxPages |-> 0, includePatterns |-> <<>>,
              excludePatterns |-> <<>>, followLinks |-> FALSE]
NoReport == [totalPages |-> 0, successfulPages |-> 0, failedPages |-> 0,
             pages |-> <<>>]

\* mutant of LoopCond: the budget test off by one (<= for <)
LoopCondInclusive == to_visit # <<>> /\ Len(results) <= options.maxPages

\* mutant of LoopCond: the loop gives up one page before the budget
LoopCondEarly == to_visit # <<>> /\ Len(results) + 1 < options.maxPages

\* the while test: to_visit and len(results) < max_pages
LoopCond == to_visit # <<>> /\ Len(results) < options.maxPages

\* mutant of Filtered: a url matching an include pattern is let through before
\* the exclude patterns are looked at
FilteredIncludeFirst(url) ==
    IF options.includePatterns # <<>>
    THEN ~AnyPatternIn(options.includePatterns, url)
    ELSE options.excludePatterns # <<>> /\ AnyPatternIn(options.excludePatterns, url)

\* the two pattern checks that `continue`
Filtered(url) ==
    \/ /\ options.excludePatterns # <<>>
       /\ AnyPatternIn(options.excludePatterns, url)
    \/ /\ options.includePatterns # <<>>
       /\ ~AnyPatternIn(options.includePatterns, url)

\* mutant of AddLinks: a discovered link is put at the front of the frontier
\* (to_visit.insert(0, href))
RECURSIVE AddLinksFront(_, _, _)
AddLinksFront(queue, links, vis) ==
    IF links = <<>> THEN queue
    ELSE AddLinksFront(IF StartsWith(Head(links), options.start_url) /\ Head(links) \notin vis
                       THEN <<Head(links)>> \o queue ELSE queue,
                       Tail(links), vis)

\* for link in page_data['links']: if href.startswith(start_url) and href not
\* in visited: to_visit.append(href)      (vis is not changed by the loop)
RECURSIVE AddLinks(_, _, _)
AddLinks(queue, links, vis) ==
    IF links = <<>> THEN queue
    ELSE AddLinks(IF StartsWith(Head(links), options.start_url) /\ Head(links) \notin vis
                  THEN Append(queue, Head(links)) ELSE queue,
                  Tail(links), vis)

\* the hrefs the link loop appends, in the order it appends them
RECURSIVE Appended(_, _)
Appended(links, vis) ==
    IF links = <<>> THEN <<>>
    ELSE (IF StartsWith(Head(links), options.start_url) /\ Head(links) \notin vis
          THEN <<Head(links)>> ELSE <<>>) \o Appended(Tail(links), vis)

\* mutant of CountStatus: every entry is counted, whatever its status
CountStatusAny(rs, status) == Len(rs)

\* sum(1 for r in results if r['status'] == status)
CountStatus(rs, status) == Cardinality({k \in 1..Len(rs) : rs[k].status = status})

\* mutant of AlreadyVisited: the visited test left out
NeverVisited(url) == FALSE

\* if url in visited
AlreadyVisited(url) == url \in visited

\* url = to_visit.pop(0); if url in visited: continue
CrawlSkipVisited ==
    /\ crawl_pc = "loop" /\ LoopCond
    /\ AlreadyVisited(Head(to_visit))
    /\ to_visit' = Tail(to_visit)
    /\ popped' = Append(popped, Head(to_visit))
    /\ UNCHANGED <<crawl_pc, options, visited, results, fetched, enqueued, report>>
    /\ UNCHANGED scrape_vars

\* visited.add(url); a pattern check continues
CrawlSkipFiltered ==
    /\ crawl_pc = "loop" /\ LoopCond
    /\ ~AlreadyVisited(Head(to_visit))
    /\ Filtered(Head(to_visit))
    /\ to_visit' = Tail(to_visit)
    /\ popped' = Append(popped, Head(to_visit))
    /\ visited' = visited \cup {Head(to_visit)}
    /\ UNCHANGED <<crawl_pc, options, results, fetched, enqueued, report>>
    /\ UNCHANGED scrape_vars

\* scrape_page.remote returns page_data with the given links
CrawlFetchOk(links) ==
    /\ crawl_pc = "loop" /\ LoopCond
    /\ ~AlreadyVisited(Head(to_visit))
    /\ ~Filtered(Head(to_visit))
    /\ popped' = Append(popped, Head(to_visit))
    /\ visited' = visited \cup {Head(to_visit)}
    /\ fetched' = Append(fetched, Head(to_visit))
    /\ results' = Append(results, [url |-> Head(to_visit), status |-> "success"])
    /\ to_visit' = IF options.followLinks /\ links.has_links /\ links.hrefs # <<>>
                   THEN AddLinks(Tail(to_visit), links.hrefs, visited')
                   ELSE Tail(to_visit)
    /\ enqueued' = IF options.followLinks /\ links.has_links /\ links.hrefs # <<>>
                   THEN enqueued \o Appended(links.hrefs, visited')
                   ELSE enqueued
    /\ UNCHANGED <<crawl_pc, options, report>>
    /\ UNCHANGED scrape_vars

\* scrape_page.remote raises
CrawlFetchFail ==
    /\ crawl_pc = "loop" /\ LoopCond
    /\ ~AlreadyVisited(Head(to_visit))
    /\ ~Filtered(Head(to_visit))
    /\ popped' = Append(popped, Head(to_visit))
    /\ visited' = visited \cup {Head(to_visit)}
    /\ fetched' = Append(fetched, Head(to_visit))
    /\ results' = Append(results, [url |-> Head(to_visit), status |-> "failed"])
    /\ to_visit' = Tail(to_visit)
    /\ UNCHANGED <<crawl_pc, options, enqueued, report>>
    /\ UNCHANGED scrape_vars

\* the loop ends and the report is returned
CrawlReturn ==
    /\ crawl_pc = "loop" /\ ~LoopCond
    /\ crawl_pc' = "done"
    /\ report' = [totalPages |-> Len(results),
                  successfulPages |-> CountStatus(results, "success"),
                  failedPages |-> CountStatus(results, "failed"),
                  pages |-> results]
    /\ UNCHANGED <<options, visited, to_visit, results, fetched, popped, enqueued>>
    /\ UNCHANGED scrape_vars


(***************************************************************************)
(* scrapling-service.py                                                    *)
(***************************************************************************)
None == "None"

\* Python dicts are functions on a finite set of keys; {} is the empty function.
EmptyDict == <<>>
DictSet(d, key, value) ==
    [k \in (DOMAIN d) \cup {key} |-> IF k = key THEN value ELSE d[k]]
\* d.get(key, default)
DictGet(d, key, default) == IF key \in DOMAIN d THEN d[key] ELSE default

\* Optional[...] response members: x if x else None
Some(x) == [some |-> TRUE, val |-> x]
Absent == [some |-> FALSE, val |-> EmptyDict]

Hosts == {"example.com"}
Fields == {"title", "price"}
Selectors == {"h1", ".t"}
Strategies == {"adaptive", "stealth", "async"}

\* hashlib.md5(domain.encode()).hexdigest(): a digest of the netloc alone
Md5(s) == <<"md5", s>>
\* get_domain_hash
get_domain_hash(url) == Md5(url.netloc)

ScrapeUrls == {[scheme |-> "https", netloc |-> h, path |-> "/"] : h \in Hosts}

\* request.selectors: the (key, selector) items in the dict's order; keys are
\* distinct.  None and {} are both the empty sequence (both are falsy).
SelectorItems ==
    {items \in SeqsUpTo(Fields \X Selectors, Cardinality(Fields)) :
        \A i, j \in 1..Len(items) : items[i][1] = items[j][1] => i = j}

Requests == [url : ScrapeUrls, strategy : Strategies, selectors : SelectorItems,
             auto_save : BOOLEAN, javascript : BOOLEAN]

\* What the fetch capability hands back: css[s] is the number of elements
\* page.css(s, ...) returns, or RaisesOn when the call raises (the same for
\* the requested and the adapted use of s); readable tells whether page.html
\* and page.title can be read when the response is assembled.  When the fetch
\* raises there is no page: raised then holds str(e) of the exception.
RaisesOn == 0 - 1
Pages == [fetch_ok : {TRUE}, css : [Selectors -> RaisesOn..MaxMatches],
          readable : BOOLEAN, html : {"<html>"}, raised : {None}]
NoPage == [fetch_ok |-> FALSE, css |-> [s \in Selectors |-> 0],
           readable |-> FALSE, html |-> "", raised |-> None]
\* str(e) of what the fetch raises; an exception without arguments gives ""
FetchErrors == {"timeout", "connection refused", ""}
NoRequest == [url |-> [scheme |-> "", netloc |-> "", path |-> ""],
              strategy |-> "", selectors |-> <<>>,
              auto_save |-> FALSE, javascript |-> FALSE]

\* el.text of the k-th element matched by selector s
ElementText(s, k) == <<s, k>>
\* elements[0].text if len(elements) == 1 else [el.text for el in elements]
ShapeValue(s, n) ==
    IF n = 1 THEN [kind |-> "text", texts |-> <<ElementText(s, 1)>>]
    ELSE [kind |-> "list", texts |-> [k \in 1..n |-> ElementText(s, k)]]
\* f"Error: {str(e)}"
ErrorValue == [kind |-> "error", texts |-> <<>>]

\* mutant of SavedSelector: the adapted selector stored as the original too
SavedSelectorSwapped(selector, adapted) ==
    [original |-> adapted, adapted |-> adapted,
     confidence |-> 95, last_updated |-> "now"]

\* mutant of SavedSelector: the requested selector is stored as the adapted one
SavedSelectorRequested(selector, adapted) ==
    [original |-> selector, adapted |-> selector,
     confidence |-> 95, last_updated |-> "now"]

\* AdaptiveSelector(original=selector, adapted=adaptive_selectors[key],
\*                  confidence=0.95, last_updated=datetime.now().isoformat())
\* (confidence in hundredths; the timestamp is the token "now")
SavedConfidence == 95
SavedSelector(selector, adapted) ==
    [original |-> selector, adapted |-> adapted,
     confidence |-> SavedConfidence, last_updated |-> "now"]

\* mutant of StorePut: the site's dict is created anew on every write
StorePutFresh(store, domain_hash, key, value) ==
    DictSet(store, domain_hash, DictSet(EmptyDict, key, value))

\* mutant of StorePut: a write to a key that has a mapping keeps that
\* mapping's original (the new value is merged into the old one)
StorePutMerge(store, domain_hash, key, value) ==
    DictSet(store, domain_hash,
            DictSet(DictGet(store, domain_hash, EmptyDict), key,
                    IF domain_hash \in DOMAIN store /\ key \in DOMAIN store[domain_hash]
                    THEN [value EXCEPT !.original = store[domain_hash][key].original]
                    ELSE value))

\* mutant of StorePut: the sites share one inner dict, so a write shows up
\* under every site
StorePutShared(store, domain_hash, key, value) ==
    [h \in (DOMAIN store) \cup {domain_hash} |->
        DictSet(DictGet(store, h, EmptyDict), key, value)]

\* if domain_hash not in adaptive_store: adaptive_store[domain_hash] = {}
\* adaptive_store[domain_hash][key] = value
StorePut(store, domain_hash, key, value) ==
    DictSet(store, domain_hash,
            DictSet(DictGet(store, domain_hash, EmptyDict), key, value))

\* mutant of NotElements: the stored selector is tried whatever the requested
\* selector matched
NotElementsAlways(n) == n >= 0

\* `not elements`, for the n elements the requested selector matched
NotElements(n) == n = 0

\* mutant of HasElements: an empty match is recorded too
HasElementsAlways(n) == n >= 0

\* `if elements:`
HasElements(n) == n > 0

\* mutant of ShouldSave: the request's auto_save flag is not looked at
ShouldSaveAlways(auto_save, key, adaptive) == key \in DOMAIN adaptive

\* if request.auto_save and key in adaptive_selectors
ShouldSave(auto_save, key, adaptive) == auto_save /\ key \in DOMAIN adaptive

\* mutant of OnFieldError: the handler drops what was extracted so far
OnFieldErrorAbort(acc, key) ==
    [acc EXCEPT !.extracted_data = DictSet(EmptyDict, key, ErrorValue)]

\* except Exception as e: extracted_data[key] = f"Error: {str(e)}"
OnFieldError(acc, key) ==
    [acc EXCEPT !.extracted_data = DictSet(@, key, ErrorValue)]

\* The body of `for key, selector in request.selectors.items()` for one item.
\* acc holds extracted_data, adaptive_selectors, the store and, as history, the
\* keys whose stored mapping was looked up (domain_selectors.get(key)) and the
\* (key, value) pairs assigned to adaptive_store[domain_hash], in order.
\* domain_selectors is the dict object adaptive_store[domain_hash] itself
\* when the site is known (so it is read through acc.store), else a fresh {}.
FieldStep(acc, key, selector, req, pg) ==
    LET domain_hash == get_domain_hash(req.url)
        domain_selectors == DictGet(acc.store, domain_hash, EmptyDict)
        first == pg.css[selector]
        lookup == first # RaisesOn /\ NotElements(first)
        stored == lookup /\ key \in DOMAIN domain_selectors
        adaptive_selector == IF stored THEN domain_selectors[key].adapted ELSE None
        retry == stored /\ adaptive_selector # None
        second == IF retry THEN pg.css[adaptive_selector] ELSE 0
        raised == first = RaisesOn \/ (retry /\ second = RaisesOn)
        elements == IF retry THEN second ELSE first
        used == IF retry THEN adaptive_selector ELSE selector
        adaptive == IF retry /\ ~raised
                    THEN DictSet(acc.adaptive_selectors, key, adaptive_selector)
                    ELSE acc.adaptive_selectors
        looked == IF lookup THEN acc.lookups \cup {key} ELSE acc.lookups
    IN  IF raised
        THEN OnFieldError([acc EXCEPT !.lookups = looked], key)
        ELSE IF HasElements(elements)
        THEN [extracted_data |-> DictSet(acc.extracted_data, key,
                                         ShapeValue(used, elements)),
              adaptive_selectors |-> adaptive,
              store |-> IF ShouldSave(req.auto_save, key, adaptive)
                        THEN StorePut(acc.store, domain_hash, key,
                                      SavedSelector(selector, adaptive[key]))
                        ELSE acc.store,
              lookups |-> looked,
              writes |-> IF ShouldSave(req.auto_save, key, adaptive)
                         THEN Append(acc.writes,
                                     <<key, SavedSelector(selector, adaptive[key])>>)
                         ELSE acc.writes]
        ELSE [acc EXCEPT !.adaptive_selectors = adaptive, !.lookups = looked]

\* the for loop over request.selectors.items()
RECURSIVE ExtractAll(_, _, _, _)
ExtractAll(acc, items, req, pg) ==
    IF items = <<>> THEN acc
    ELSE ExtractAll(FieldStep(acc, Head(items)[1], Head(items)[2], req, pg),
                    Tail(items), req, pg)

\* extracted_data = {}; adaptive_selectors = {}; if request.selectors: ...
Extract(store, req, pg) ==
    ExtractAll([extracted_data |-> EmptyDict, adaptive_selectors |-> EmptyDict,
                store |-> store, lookups |-> {}, writes |-> <<>>],
               req.selectors, req, pg)

\* history: last with the (key, value) assignments of writes to the dict of
\* domain_hash applied, each assignment replacing what the key held
RECURSIVE LastWrites(_, _, _)
LastWrites(last, domain_hash, writes) ==
    IF writes = <<>> THEN last
    ELSE LastWrites([h \in (DOMAIN last) \cup {domain_hash} |->
                        IF h = domain_hash
                        THEN [k \in (IF h \in DOMAIN last THEN DOMAIN last[h] ELSE {})
                                       \cup {Head(writes)[1]} |->
                                 IF k = Head(writes)[1] THEN Head(writes)[2]
                                 ELSE last[h][k]]
                        ELSE last[h]],
                    domain_hash, Tail(writes))

\* cost in units of 0.0001
BaseCost == 1
StealthCost == 4
JavascriptCost == 2
Cost(req) ==
    BaseCost + (IF req.strategy = "stealth" THEN StealthCost ELSE 0)
             + (IF req.javascript THEN JavascriptCost ELSE 0)

\* return ScraplingResponse(success=True, ...)
SuccessResponse(req, pg, acc) ==
    [success |-> TRUE,
     data |-> IF acc.extracted_data # EmptyDict THEN Some(acc.extracted_data) ELSE Absent,
     content |-> IF req.selectors = <<>> THEN Some(pg.html) ELSE Absent,
     metadata |-> [url |-> req.url, strategy |-> req.strategy],
     adaptive_selectors |-> IF acc.adaptive_selectors # EmptyDict
                            THEN Some(acc.adaptive_selectors) ELSE Absent,
     cost |-> Cost(req),
     error |-> None]

\* mutant of FailureResponse: the failed request is still charged
FailureResponseCharged(req, message) ==
    [success |-> FALSE,
     data |-> Absent,
     content |-> Absent,
     metadata |-> [url |-> req.url, strategy |-> req.strategy],
     adaptive_selectors |-> Absent,
     cost |-> 1 + (IF req.strategy = "stealth" THEN 4 ELSE 0)
               + (IF req.javascript THEN 2 ELSE 0),
     error |-> message]

\* except Exception as e: return ScraplingResponse(success=False, ...)
FailureResponse(req, message) ==
    [success |-> FALSE,
     data |-> Absent,
     content |-> Absent,
     metadata |-> [url |-> req.url, strategy |-> req.strategy],
     adaptive_selectors |-> Absent,
     cost |-> 0,
     error |-> message]

NoResponse == FailureResponse(NoRequest, "")

\* POST /scrape is received; the handler runs up to its page fetch
ScrapeReceive(req) ==
    /\ pc = "idle"
    /\ pc' = "fetching"
    /\ request' = req
    /\ UNCHANGED <<adaptive_store, prev_store, page, response, lookups, n_updates,
                   inflight, last_write>>
    /\ UNCHANGED crawl_vars

\* fetcher.fetch raises: the outer except builds the failure response
ScrapeFetchRaises(message) ==
    /\ pc = "fetching"
    /\ pc' = "responded"
    /\ page' = [NoPage EXCEPT !.raised = message]
    /\ prev_store' = adaptive_store
    /\ response' = FailureResponse(request, message)
    /\ UNCHANGED <<adaptive_store, request, lookups, n_updates, inflight, last_write>>
    /\ UNCHANGED crawl_vars

\* fetcher.fetch returns pg: extraction, store updates and the response
ScrapeFetched(pg) ==
    /\ pc = "fetching"
    /\ pc' = "responded"
    /\ page' = pg
    /\ prev_store' = adaptive_store
    /\ LET acc == Extract(adaptive_store, request, pg)
       IN  /\ adaptive_store' = acc.store
           /\ lookups' = acc.lookups
           /\ last_write' = LastWrites(last_write, get_domain_hash(request.url),
                                       acc.writes)
           /\ response' = IF pg.readable
                          THEN SuccessResponse(request, pg, acc)
                          ELSE FailureResponse(request, "page read failed")
    /\ UNCHANGED <<request, n_updates, inflight>>
    /\ UNCHANGED crawl_vars

\* the response has been sent; the handler's frame is gone
ScrapeDone ==
    /\ pc = "responded"
    /\ pc' = "idle"
    /\ request' = NoRequest
    /\ page' = NoPage
    /\ response' = NoResponse
    /\ prev_store' = EmptyDict
    /\ lookups' = {}
    /\ UNCHANGED <<adaptive_store, n_updates, inflight, last_write>>
    /\ UNCHANGED crawl_vars

\* the AdaptiveSelector bodies a client posts to /adaptive-selectors/update
PostedSelectors == [original : {"#old"}, adapted : Selectors \cup {None},
                    confidence : {50}, last_updated : {"client"}]

\* POST /adaptive-selectors/update.  The handler has no await, so it runs
\* while no scrape runs or while an async-strategy scrape awaits its fetch.
update_adaptive_selector(domain_hash, key, selector) ==
    /\ \/ pc = "idle"
       \/ pc = "fetching" /\ request.strategy = "async"
    /\ n_updates' = IF n_updates < MaxUpdates THEN n_updates + 1 ELSE n_updates
    /\ adaptive_store' = StorePut(adaptive_store, domain_hash, key, selector)
    /\ last_write' = LastWrites(last_write, domain_hash, <<<<key, selector>>>>)
    /\ UNCHANGED <<pc, request, page, response, prev_store, lookups, inflight>>
    /\ UNCHANGED crawl_vars

\* GET /adaptive-selectors/{domain_hash}: "count"
SelectorCount(store, domain_hash) ==
    Cardinality(DOMAIN DictGet(store, domain_hash, EmptyDict))
\* GET /health: "adaptive_domains"
AdaptiveDomains(store) == Cardinality(DOMAIN store)

(***************************************************************************)
(* Concurrent handlers.  The service runs its handlers on one event loop:  *)
(* a handler runs until it awaits, and the only await is the fetch of an   *)
(* async-strategy scrape.  Several such scrapes can be suspended at their  *)
(* fetch at once; a scrape of another strategy and an update run from      *)
(* start to end without any other handler in between.  The response goes   *)
(* to the client and is not kept.                                          *)
(***************************************************************************)
Handlers == 1..MaxHandlers

\* the requests and pages of the concurrent runs: a request asks for one
\* field; stealth differs from adaptive only in the fetcher it builds
ConcRequests ==
    {r \in Requests : /\ r.strategy \in {"async", "adaptive"}
                      /\ ~r.javascript
                      /\ Len(r.selectors) = 1}
ConcPages ==
    {pg \in Pages : pg.readable /\ \A sel \in Selectors : pg.css[sel] \in {0, 1}}

\* POST /scrape with strategy async: the handler h runs up to `await fetch`
ConcReceive(h, req) ==
    /\ pc = "idle"
    /\ inflight[h] = NoRequest
    /\ req.strategy = "async"
    /\ inflight' = [inflight EXCEPT ![h] = req]
    /\ UNCHANGED <<adaptive_store, pc, request, page, response, prev_store, lookups,
                   n_updates, last_write>>
    /\ UNCHANGED crawl_vars

\* the fetch of handler h raises: the handler returns the failure response
ConcFetchRaises(h) ==
    /\ pc = "idle"
    /\ inflight[h] # NoRequest
    /\ inflight' = [inflight EXCEPT ![h] = NoRequest]
    /\ UNCHANGED <<adaptive_store, pc, request, page, response, prev_store, lookups,
                   n_updates, last_write>>
    /\ UNCHANGED crawl_vars

\* the fetch of handler h returns pg: the handler runs to its end
ConcResume(h, pg) ==
    /\ pc = "idle"
    /\ inflight[h] # NoRequest
    /\ LET acc == Extract(adaptive_store, inflight[h], pg)
       IN  /\ adaptive_store' = acc.store
           /\ last_write' = LastWrites(last_write, get_domain_hash(inflight[h].url),
                                       acc.writes)
    /\ inflight' = [inflight EXCEPT ![h] = NoRequest]
    /\ UNCHANGED <<pc, request, page, response, prev_store, lookups, n_updates>>
    /\ UNCHANGED crawl_vars

\* POST /scrape with another strategy: the fetch does not await, the handler
\* runs from start to end while the others stay suspended
ConcServe(req, pg) ==
    /\ pc = "idle"
    /\ req.strategy # "async"
    /\ LET acc == Extract(adaptive_store, req, pg)
       IN  /\ adaptive_store' = acc.store
           /\ last_write' = LastWrites(last_write, get_domain_hash(req.url), acc.writes)
    /\ UNCHANGED <<pc, request, page, response, prev_store, lookups, n_updates,
                   inflight>>
    /\ UNCHANGED crawl_vars

ScrapeIdle ==
    /\ adaptive_store = <<>>
    /\ pc = "idle"
    /\ request = NoRequest
    /\ page = NoPage
    /\ response = NoResponse
    /\ prev_store = <<>>
    /\ lookups = {}
    /\ n_updates = 0
    /\ inflight = [h \in Handlers |-> NoRequest]
    /\ last_write = <<>>

\* crawl_site(start_url, options) has been called and stands before its loop
CrawlInit ==
    /\ crawl_pc = "loop"
    /\ options \in [start_url : StartUrls, maxPages : 0..MaxPages,
                    includePatterns : PatternLists, excludePatterns : PatternLists,
                    followLinks : BOOLEAN]
    /\ visited = {}
    /\ to_visit = <<options.start_url>>
    /\ results = <<>>
    /\ fetched = <<>>
    /\ popped = <<>>
    /\ enqueued = <<options.start_url>>
    /\ report = NoReport
    /\ ScrapeIdle

CrawlNext ==
    \/ CrawlSkipVisited
    \/ CrawlSkipFiltered
    \/ \E links \in PageLinks : CrawlFetchOk(links)
    \/ CrawlFetchFail
    \/ CrawlReturn

CrawlSpec == CrawlInit /\ [][CrawlNext]_vars

\* crawl_site is sequential code: while the loop can take a step (each page
\* fetch returns or raises) it takes one
CrawlLiveSpec == CrawlInit /\ [][CrawlNext]_vars /\ WF_vars(CrawlNext)

CrawlIdle ==
    /\ crawl_pc = "idle"
    /\ options = NoOptions
    /\ visited = {}
    /\ to_visit = <<>>
    /\ results = <<>>
    /\ fetched = <<>>
    /\ popped = <<>>
    /\ enqueued = <<>>
    /\ report = NoReport

\* the service has started: adaptive_store = {}
Init == ScrapeIdle /\ CrawlIdle

Next ==
    \/ \E req \in Requests : ScrapeReceive(req)
    \/ \E message \in FetchErrors : ScrapeFetchRaises(message)
    \/ \E pg \in Pages : ScrapeFetched(pg)
    \/ ScrapeDone
    \/ \E h \in Hosts, key \in Fields, selector \in PostedSelectors :
          update_adaptive_selector(Md5(h), key, selector)

Spec == Init /\ [][Next]_vars

\* Two sites.  The same handlers, with requests for either site and updates
\* for either site identity.
SiteHosts == {"example.com", "shop.example"}
SiteRequests ==
    [url : {[scheme |-> "https", netloc |-> h, path |-> "/"] : h \in SiteHosts},
     strategy : {"adaptive", "async"}, selectors : SelectorItems,
     auto_save : BOOLEAN, javascript : {FALSE}]
SitePages == {pg \in Pages : \A sel \in Selectors : pg.css[sel] \in {0, 1}}
SitePosted == {ps \in PostedSelectors : ps.adapted = ".t"}

SiteNext ==
    \/ \E req \in SiteRequests : ScrapeReceive(req)
    \/ \E message \in FetchErrors : ScrapeFetchRaises(message)
    \/ \E pg \in SitePages : ScrapeFetched(pg)
    \/ ScrapeDone
    \/ \E h \in SiteHosts, key \in Fields, selector \in SitePosted :
          update_adaptive_selector(Md5(h), key, selector)

SiteSpec == Init /\ [][SiteNext]_vars

ConcNext ==
    \/ \E h \in Handlers, req \in ConcRequests : ConcReceive(h, req)
    \/ \E h \in Handlers : ConcFetchRaises(h)
    \/ \E h \in Handlers, pg \in ConcPages : ConcResume(h, pg)
    \/ \E req \in ConcRequests, pg \in ConcPages : ConcServe(req, pg)
    \/ \E h \in Hosts, key \in Fields, selector \in PostedSelectors :
          update_adaptive_selector(Md5(h), key, selector)

ConcSpec == Init /\ [][ConcNext]_vars

(***************************************************************************)
(* Properties of crawl_site (checked under CrawlSpec).                     *)
(***************************************************************************)
Occurrences(seq, x) == Cardinality({k \in 1..Len(seq) : seq[k] = x})

\* C1: with max_pages = N >= 0, at every point of the loop and in the returned
\* report the number of recorded page results (success plus failed) is at most N.
C1_ResultsWithinBudget ==
    /\ Len(results) <= options.maxPages
    /\ CountStatus(results, "success") + CountStatus(results, "failed")
           <= options.maxPages
    /\ crawl_pc = "done" =>
          /\ Len(report.pages) <= options.maxPages
          /\ report.totalPages <= options.maxPages
          /\ report.successfulPages + report.failedPages <= options.maxPages

\* C1 witness: a crawl that returned because the budget was reached, with urls
\* still waiting in the frontier and both kinds of outcome recorded.
C1_Witness ==
    /\ crawl_pc = "done"
    /\ options.maxPages >= 2
    /\ Len(report.pages) = options.maxPages
    /\ Len(to_visit) >= 2
    /\ report.successfulPages >= 1
    /\ report.failedPages >= 1

\* C2: every url is passed to scrape_page at most once and has at most one
\* entry in the results, however often it was discovered and popped: each
\* recorded entry belongs to exactly one fetch, so a pop of a visited url
\* records nothing.
C2_FetchedAtMostOnce ==
    /\ \A u \in Urls : Occurrences(fetched, u) <= 1
    /\ Len(results) = Len(fetched)
    /\ \A k \in 1..Len(results) : results[k].url = fetched[k]
    /\ Len(results) <= Cardinality({popped[k] : k \in 1..Len(popped)})

\* C2 witness: a fetched url was popped a second time (it sat in the frontier
\* twice) and the crawl went on to fetch another url afterwards.
C2_Witness ==
    \E i, j \in 1..Len(popped) :
        /\ i < j
        /\ popped[i] = popped[j]
        /\ Occurrences(fetched, popped[i]) = 1
        /\ \E k \in (j + 1)..Len(popped) :
              Occurrences(fetched, popped[k]) = 1 /\ popped[k] # popped[i]

\* the claim's condition on a url, stated on the options themselves
PassesPatterns(url) ==
    /\ \A k \in 1..Len(options.excludePatterns) :
          ~Contains(url, options.excludePatterns[k])
    /\ \/ Len(options.includePatterns) = 0
       \/ \E k \in 1..Len(options.includePatterns) :
             Contains(url, options.includePatterns[k])

\* C3: a url is fetched, and an outcome recorded for it, only if it contains
\* no exclude pattern and (there are no include patterns or it contains one);
\* the results hold one entry per fetch, so a filtered url uses no budget.
C3_OnlyUnfilteredFetched ==
    /\ \A k \in 1..Len(fetched) : PassesPatterns(fetched[k])
    /\ \A k \in 1..Len(results) : PassesPatterns(results[k].url)
    /\ Len(results) = Len(fetched)

\* C3 witness: a popped url that contains an excluded substring and also an
\* included one was not fetched, while the crawl fetched a later url and
\* filled its budget with fetched urls only.
C3_Witness ==
    /\ crawl_pc = "done"
    /\ Len(results) = options.maxPages
    /\ \E j \in 1..Len(popped) :
          /\ AnyPatternIn(options.excludePatterns, popped[j])
          /\ AnyPatternIn(options.includePatterns, popped[j])
          /\ Occurrences(fetched, popped[j]) = 0
          /\ \E k \in (j + 1)..Len(popped) : Occurrences(fetched, popped[k]) = 1

\* the entries of a list of results that are about url
EntriesFor(rs, url) == {k \in 1..Len(rs) : rs[k].url = url}

\* C11: a page whose fetch raises has one entry, of status failed, and the
\* crawl goes on: it returns only with the frontier empty or the budget
\* reached, and the report's totalPages equals successfulPages + failedPages
\* and the length of pages, the failed entries being counted as failed.
C11_FailureRecordedCrawlContinues ==
    /\ \A k \in 1..Len(results) :
          /\ results[k].status \in {"success", "failed"}
          /\ Cardinality(EntriesFor(results, results[k].url)) = 1
    /\ crawl_pc = "done" =>
          /\ to_visit = <<>> \/ Len(results) >= options.maxPages
          /\ report.pages = results
          /\ report.totalPages = Len(report.pages)
          /\ report.totalPages = report.successfulPages + report.failedPages
          /\ report.failedPages
                = Cardinality({k \in 1..Len(report.pages) :
                                 report.pages[k].status = "failed"})

\* C11 witness: a fetch failed, the next url of the frontier was fetched with
\* success, and the crawl returned with the frontier empty.
C11_Witness ==
    /\ crawl_pc = "done"
    /\ to_visit = <<>>
    /\ \E k \in 1..(Len(results) - 1) :
          results[k].status = "failed" /\ results[k + 1].status = "success"
    /\ report.failedPages = 1

\* position at which x was first put into the frontier
FirstIndex(seq, x) ==
    CHOOSE k \in 1..Len(seq) : seq[k] = x /\ \A m \in 1..(k - 1) : seq[m] # x

\* C12: the entries of the results (and of the report's pages) stand in the
\* order in which their urls were first put into the frontier, and the first
\* entry, if there is one, is start_url.
C12_FifoOrder ==
    /\ \A k \in 1..Len(results) :
          \E m \in 1..Len(enqueued) : enqueued[m] = results[k].url
    /\ \A i, j \in 1..Len(results) :
          FirstIndex(enqueued, results[i].url) < FirstIndex(enqueued, results[j].url)
             => i < j
    /\ results # <<>> => results[1].url = options.start_url
    /\ crawl_pc = "done" => report.pages = results

\* C12 witness: three pages reported, the second and third discovered on the
\* first page and a link of the second page put behind them; some url was put
\* into the frontier more than once.
C12_Witness ==
    /\ crawl_pc = "done"
    /\ Len(report.pages) = 3
    /\ Len(enqueued) >= 5
    /\ enqueued[2] = report.pages[2].url
    /\ enqueued[3] = report.pages[3].url
    /\ enqueued[2] # enqueued[3]
    /\ \E i, j \in 1..Len(enqueued) : i < j /\ enqueued[i] = enqueued[j]

\* url begins with prefix, character by character
HasPrefix(url, prefix) ==
    /\ Len(prefix) <= Len(url)
    /\ \A k \in 1..Len(prefix) : url[k] = prefix[k]

\* the urls a step put into the frontier
NewlyEnqueued == SubSeq(enqueued', Len(enqueued) + 1, Len(enqueued'))

\* C13: a step puts links into the frontier only with followLinks on and
\* after a successful fetch (it appended a success entry), and every link it
\* puts there starts with start_url and is not in the visited set; a step
\* that puts no link there only takes the popped url away.  So every fetched
\* url starts with start_url, and with followLinks off only start_url is
\* fetched.
C13_LinksEnqueuedInScope ==
    [][/\ Len(enqueued') >= Len(enqueued)
       /\ SubSeq(enqueued', 1, Len(enqueued)) = enqueued
       /\ \/ to_visit' = to_visit /\ NewlyEnqueued = <<>>
          \/ to_visit # <<>> /\ to_visit' = Tail(to_visit) \o NewlyEnqueued
       /\ NewlyEnqueued # <<>> =>
             /\ options.followLinks
             /\ Len(results') = Len(results) + 1
             /\ results'[Len(results')] = [url |-> Head(to_visit), status |-> "success"]
             /\ \A k \in 1..Len(NewlyEnqueued) :
                   /\ HasPrefix(NewlyEnqueued[k], options.start_url)
                   /\ NewlyEnqueued[k] \notin visited'
       /\ \A k \in 1..Len(fetched') : HasPrefix(fetched'[k], options'.start_url)
       /\ ~options'.followLinks =>
             \A k \in 1..Len(fetched') : fetched'[k] = options'.start_url
      ]_vars

\* C13 witness: a crawl from a start_url below the site's root followed links
\* and fetched, besides start_url, two urls discovered on fetched pages; all
\* of them start with start_url.
C13_Witness ==
    /\ crawl_pc = "done"
    /\ options.followLinks
    /\ options.start_url = <<"h", "b">>
    /\ Len(fetched) = 3
    /\ Len(enqueued) >= 3
    /\ \A k \in 1..Len(fetched) : HasPrefix(fetched[k], options.start_url)
    /\ fetched[2] # fetched[3]

\* C14: whatever links the pages return (cycles and self-links included),
\* crawl_site eventually returns, and when it has returned the frontier is
\* empty or the number of recorded results has reached max_pages.
C14_Terminates ==
    <>(/\ crawl_pc = "done"
       /\ to_visit = <<>> \/ Len(results) >= options.maxPages)

\* C14 witness: the crawl returned with budget left although pages linked to
\* themselves or to each other: a url was popped again after it was fetched.
C14_Witness ==
    /\ crawl_pc = "done"
    /\ options.followLinks
    /\ to_visit = <<>>
    /\ 2 <= Len(results) /\ Len(results) < options.maxPages
    /\ \E i, j \in 1..Len(popped) :
          i < j /\ popped[i] = popped[j] /\ Occurrences(fetched, popped[i]) = 1

(***************************************************************************)
(* Properties of scrape and the adaptive selector store (checked under     *)
(* Spec).  In a state with pc = "responded" the variables request, page    *)
(* and response are those of the request just served, prev_store is the    *)
(* store the handler found and adaptive_store the store it left.           *)
(***************************************************************************)
\* the request got its page (the fetch did not raise)
Served == pc = "responded" /\ page.fetch_ok
Site == get_domain_hash(request.url)
Items == 1..Len(request.selectors)
KeyOf(i) == request.selectors[i][1]
SelectorOf(i) == request.selectors[i][2]

HasMapping(store, domain_hash, key) ==
    domain_hash \in DOMAIN store /\ key \in DOMAIN store[domain_hash]
SameMapping(s1, s2, domain_hash, key) ==
    /\ HasMapping(s1, domain_hash, key) <=> HasMapping(s2, domain_hash, key)
    /\ HasMapping(s1, domain_hash, key) =>
          s1[domain_hash][key] = s2[domain_hash][key]
\* the keys of an Optional dict of the response
KeysOf(opt) == IF opt.some THEN DOMAIN opt.val ELSE {}

\* the stored adapted selector a request finds for a field, None when there is
\* no mapping or the mapping has no adapted selector
StoredAdapted(key) ==
    IF HasMapping(prev_store, Site, key) THEN prev_store[Site][key].adapted ELSE None

\* C4: for a requested field whose requested selector matches at least one
\* element, the stored mapping of the field is not looked up, the value is
\* that of the requested selector, the field is not reported as adapted and
\* the stored mapping of (site, field) is left as it was.
C4_MatchNeverConsultsStore ==
    Served =>
        \A i \in Items :
            page.css[SelectorOf(i)] >= 1 =>
                /\ KeyOf(i) \notin lookups
                /\ SameMapping(adaptive_store, prev_store, Site, KeyOf(i))
                /\ KeyOf(i) \notin KeysOf(response.adaptive_selectors)
                /\ response.success =>
                      /\ KeyOf(i) \in KeysOf(response.data)
                      /\ response.data.val[KeyOf(i)]
                            = ShapeValue(SelectorOf(i), page.css[SelectorOf(i)])

\* C4 witness: the requested selector matches although the store holds another,
\* also matching, adapted selector for the field, and auto_save is on.
C4_Witness ==
    /\ Served /\ response.success /\ request.auto_save
    /\ \E i \in Items :
          /\ page.css[SelectorOf(i)] >= 1
          /\ StoredAdapted(KeyOf(i)) \in Selectors \ {SelectorOf(i)}
          /\ page.css[StoredAdapted(KeyOf(i))] >= 1

\* the case of C5: the requested selector matches nothing, the stored adapted
\* selector matches something
AdaptedCase(i) ==
    /\ page.css[SelectorOf(i)] = 0
    /\ StoredAdapted(KeyOf(i)) \in Selectors
    /\ page.css[StoredAdapted(KeyOf(i))] >= 1

\* C5: when the requested selector matches nothing and the stored adapted
\* selector of (site, field) matches, the value is the adapted selector's
\* matches, the field is reported adapted with that selector, and with
\* auto_save the store then maps (site, field) to original = the requested
\* selector and adapted = the selector used.
C5_AdaptedSelectorUsedAndSaved ==
    Served =>
        \A i \in Items :
            AdaptedCase(i) =>
                /\ response.success =>
                      /\ KeyOf(i) \in KeysOf(response.data)
                      /\ response.data.val[KeyOf(i)]
                            = ShapeValue(StoredAdapted(KeyOf(i)),
                                         page.css[StoredAdapted(KeyOf(i))])
                      /\ KeyOf(i) \in KeysOf(response.adaptive_selectors)
                      /\ response.adaptive_selectors.val[KeyOf(i)]
                            = StoredAdapted(KeyOf(i))
                /\ request.auto_save =>
                      /\ HasMapping(adaptive_store, Site, KeyOf(i))
                      /\ adaptive_store[Site][KeyOf(i)].original = SelectorOf(i)
                      /\ adaptive_store[Site][KeyOf(i)].adapted
                            = StoredAdapted(KeyOf(i))

\* C5 witness: an adapted field with several matches, saved over a mapping
\* whose original was another selector.
C5_Witness ==
    /\ Served /\ response.success /\ request.auto_save
    /\ \E i \in Items :
          /\ AdaptedCase(i)
          /\ page.css[StoredAdapted(KeyOf(i))] = 2
          /\ prev_store[Site][KeyOf(i)].original # SelectorOf(i)
          /\ adaptive_store[Site][KeyOf(i)].original = SelectorOf(i)

\* the (site, field) keys of a store
StoreKeys(store) == {hk \in (DOMAIN store) \X Fields : hk[2] \in DOMAIN store[hk[1]]}

\* a write to (domain_hash, key) replaced the mapping: the key is still there
\* and the site keeps its entries and the store its sites
Replaced(domain_hash, key) ==
    /\ HasMapping(adaptive_store', domain_hash, key)
    /\ DOMAIN adaptive_store'[domain_hash] = DOMAIN adaptive_store[domain_hash]
    /\ SelectorCount(adaptive_store', domain_hash)
          = SelectorCount(adaptive_store, domain_hash)
    /\ DOMAIN adaptive_store' = DOMAIN adaptive_store
    /\ AdaptiveDomains(adaptive_store') = AdaptiveDomains(adaptive_store)

\* the fields whose adaptation the request served in the next state saved
SavedKeys ==
    IF request'.auto_save /\ page'.fetch_ok
    THEN {request'.selectors[i][1] : i \in
            {j \in 1..Len(request'.selectors) :
                /\ page'.css[request'.selectors[j][2]] = 0
                /\ HasMapping(adaptive_store, get_domain_hash(request'.url),
                              request'.selectors[j][1])
                /\ adaptive_store[get_domain_hash(request'.url)]
                                 [request'.selectors[j][1]].adapted \in Selectors
                /\ page'.css[adaptive_store[get_domain_hash(request'.url)]
                                [request'.selectors[j][1]].adapted] >= 1}}
    ELSE {}

\* C6: the store holds one mapping per (site, field) key (it is a dict of
\* dicts); an update or an adaptation for a key that already has a mapping
\* replaces that mapping, and the number of entries of the site and the number
\* of sites stay what they were.  Every step of the service changes the keys
\* of the store only by adding the key an update wrote.
C6_WritesReplace ==
    [][/\ \A h \in Hosts, key \in Fields, selector \in PostedSelectors :
             update_adaptive_selector(Md5(h), key, selector) =>
                 /\ adaptive_store'[Md5(h)][key] = selector
                 /\ StoreKeys(adaptive_store')
                       = StoreKeys(adaptive_store) \cup {<<Md5(h), key>>}
                 /\ HasMapping(adaptive_store, Md5(h), key) =>
                       Replaced(Md5(h), key)
       /\ \A pg \in Pages :
             ScrapeFetched(pg) =>
                 /\ StoreKeys(adaptive_store') = StoreKeys(adaptive_store)
                 /\ \A key \in SavedKeys :
                       /\ Replaced(get_domain_hash(request.url), key)
                       /\ adaptive_store'[get_domain_hash(request.url)][key].confidence
                             = SavedConfidence
      ]_vars

\* C6 witness: after two updates the store holds a single key (the second
\* update went to the key of the first), and a request has just saved an
\* adaptation over a mapping that an earlier adaptation had saved, while the
\* site holds one entry.
C6_Witness ==
    /\ Served /\ request.auto_save
    /\ n_updates = 2
    /\ Cardinality(StoreKeys(adaptive_store)) = 1
    /\ \E i \in Items :
          /\ AdaptedCase(i)
          /\ prev_store[Site][KeyOf(i)].confidence = SavedConfidence
          /\ adaptive_store[Site][KeyOf(i)].original = SelectorOf(i)
          /\ SelectorCount(adaptive_store, Site) = 1
          /\ AdaptiveDomains(adaptive_store) = 1

\* the case of C7: the requested selector matches nothing and the store the
\* request finds has no mapping for (site, field)
NoMatchNoMapping(i) ==
    /\ page.css[SelectorOf(i)] = 0
    /\ ~HasMapping(prev_store, Site, KeyOf(i))

\* C7 as stated: the page was fetched (and its html and title can be read), a
\* requested field's selector matches nothing and the store has no mapping
\* for (site, field): the response is a success, the field is absent from the
\* extracted fields and from the adaptive selectors used, and the store is
\* exactly what it was before the request.
C7_StoreUntouchedAsStated ==
    (Served /\ page.readable) =>
        \A i \in Items :
            NoMatchNoMapping(i) =>
                /\ response.success
                /\ KeyOf(i) \notin KeysOf(response.data)
                /\ KeyOf(i) \notin KeysOf(response.adaptive_selectors)
                /\ adaptive_store = prev_store

\* C7 amended: in that case the response is a success, the field is absent
\* from the extracted fields and from the adaptive selectors used, and the
\* request creates no mapping for (site, field); the store differs from what
\* it was only in mappings of other requested fields that were adapted with
\* auto_save on, so without such a field it is exactly what it was.
C7_NoMatchNoMappingLeavesField ==
    (Served /\ page.readable) =>
        \A i \in Items :
            NoMatchNoMapping(i) =>
                /\ response.success
                /\ KeyOf(i) \notin KeysOf(response.data)
                /\ KeyOf(i) \notin KeysOf(response.adaptive_selectors)
                /\ ~HasMapping(adaptive_store, Site, KeyOf(i))
                /\ DOMAIN adaptive_store = DOMAIN prev_store
                /\ \A hk \in StoreKeys(prev_store) \cup StoreKeys(adaptive_store) :
                      ~SameMapping(adaptive_store, prev_store, hk[1], hk[2]) =>
                          /\ hk[1] = Site
                          /\ request.auto_save
                          /\ \E j \in Items \ {i} : KeyOf(j) = hk[2] /\ AdaptedCase(j)
                /\ (~request.auto_save \/ ~\E j \in Items \ {i} : AdaptedCase(j)) =>
                      adaptive_store = prev_store

\* C7 witness: one field without match and without mapping, served with
\* auto_save on next to a field whose adaptation was saved.
C7_Witness ==
    /\ Served /\ page.readable /\ request.auto_save /\ response.success
    /\ \E i \in Items :
          /\ NoMatchNoMapping(i)
          /\ \E j \in Items \ {i} : AdaptedCase(j)
    /\ adaptive_store # prev_store

\* C8: when the fetch raises, whatever the strategy, the handler returns a
\* response with success = false, the error set to the message of what was
\* raised, no data, no content, no adaptive selectors and cost 0.
C8_FetchFailureResponse ==
    (pc = "responded" /\ ~page.fetch_ok) =>
        /\ response.success = FALSE
        /\ response.error = page.raised
        /\ response.error # None
        /\ ~response.data.some
        /\ ~response.content.some
        /\ ~response.adaptive_selectors.some
        /\ response.cost = 0

\* C8 witness: a failed fetch of a stealth request with JavaScript rendering
\* and selectors, which would have cost 7 units had it succeeded.
C8_Witness ==
    /\ pc = "responded" /\ ~page.fetch_ok
    /\ request.strategy = "stealth" /\ request.javascript
    /\ request.selectors # <<>>
    /\ response.error = "timeout"
    /\ Cost(request) = 7
    /\ response.cost = 0

\* C9 as stated: a success response has exactly one of data and content
\* populated and no error; a failure response has the error populated and
\* neither data nor content.
C9_ExactlyOnePopulated ==
    pc = "responded" =>
        /\ response.success =>
              /\ response.data.some # response.content.some
              /\ response.error = None
        /\ ~response.success =>
              /\ response.error # None
              /\ ~response.data.some
              /\ ~response.content.some

\* applying the selector of field i raised: the requested selector, or the
\* stored adapted selector tried after the requested one matched nothing
FieldRaised(i) ==
    \/ page.css[SelectorOf(i)] = RaisesOn
    \/ /\ page.css[SelectorOf(i)] = 0
       /\ StoredAdapted(KeyOf(i)) \in Selectors
       /\ page.css[StoredAdapted(KeyOf(i))] = RaisesOn

\* items with the i-th removed
RemoveAt(items, i) == [k \in 1..(Len(items) - 1) |-> IF k < i THEN items[k] ELSE items[k + 1]]

\* what the request would have extracted without its i-th field
WithoutField(i) ==
    Extract(prev_store,
            [request EXCEPT !.selectors = RemoveAt(request.selectors, i)], page)

\* C10: when applying the selector of a requested field raises, that field
\* gets an error value, is not reported adapted and its mapping is not
\* written; every other field gets the value, the adapted selector and the
\* stored mapping it would have got without the failing field; and the
\* response is a success (whenever the page can be read for the response).
C10_FieldErrorIsLocal ==
    Served =>
        \A i \in Items :
            FieldRaised(i) =>
                /\ page.readable => response.success
                /\ SameMapping(adaptive_store, prev_store, Site, KeyOf(i))
                /\ response.success =>
                      /\ KeyOf(i) \in KeysOf(response.data)
                      /\ response.data.val[KeyOf(i)] = ErrorValue
                      /\ KeyOf(i) \notin KeysOf(response.adaptive_selectors)
                /\ \A j \in Items \ {i} :
                      /\ SameMapping(adaptive_store, WithoutField(i).store,
                                     Site, KeyOf(j))
                      /\ response.success =>
                            /\ KeyOf(j) \in KeysOf(response.data)
                                  <=> KeyOf(j) \in DOMAIN WithoutField(i).extracted_data
                            /\ KeyOf(j) \in KeysOf(response.data) =>
                                  response.data.val[KeyOf(j)]
                                     = WithoutField(i).extracted_data[KeyOf(j)]
                            /\ KeyOf(j) \in KeysOf(response.adaptive_selectors)
                                  <=> KeyOf(j) \in DOMAIN WithoutField(i).adaptive_selectors
                            /\ KeyOf(j) \in KeysOf(response.adaptive_selectors) =>
                                  response.adaptive_selectors.val[KeyOf(j)]
                                     = WithoutField(i).adaptive_selectors[KeyOf(j)]

\* C10 witness: the second field's selector raises after the first field was
\* extracted; the response is a success holding the first field's value and
\* the second field's error, and the store holds a mapping for the failing
\* field.
C10_Witness ==
    /\ Served /\ response.success /\ request.auto_save
    /\ Len(request.selectors) = 2
    /\ FieldRaised(2)
    /\ HasMapping(prev_store, Site, KeyOf(2))
    /\ response.data.val[KeyOf(2)] = ErrorValue
    /\ KeyOf(1) \in KeysOf(response.data)
    /\ response.data.val[KeyOf(1)].kind = "list"

\* the stored adapted selector was tried for field i and matched nothing
AdaptedNoMatch(i) ==
    /\ page.css[SelectorOf(i)] = 0
    /\ StoredAdapted(KeyOf(i)) \in Selectors
    /\ page.css[StoredAdapted(KeyOf(i))] = 0

\* C15 as stated: in a success response a field is listed in the adaptive
\* selectors used only if its requested selector matched nothing and the
\* stored adapted selector matched at least one element; when neither the
\* requested nor the stored adapted selector matches, the field has no value
\* and is not listed as adapted.
C15_AdaptedOnlyWithMatches ==
    (Served /\ response.success) =>
        \A i \in Items :
            /\ KeyOf(i) \in KeysOf(response.adaptive_selectors) => AdaptedCase(i)
            /\ (page.css[SelectorOf(i)] = 0 /\ ~AdaptedCase(i) /\ ~FieldRaised(i)) =>
                  /\ KeyOf(i) \notin KeysOf(response.data)
                  /\ KeyOf(i) \notin KeysOf(response.adaptive_selectors)

\* the (site, field) keys whose mapping differs between two stores
ChangedKeys(s1, s2) ==
    {hk \in StoreKeys(s1) \cup StoreKeys(s2) : ~SameMapping(s1, s2, hk[1], hk[2])}

\* C16: a request changes the mapping of (site, field) only if auto_save is
\* on and the field's requested selector matched nothing while the stored
\* adapted selector matched; with auto_save off, with no selectors, or with
\* no field adapted, the store the request leaves is the store it found.
C16_WritesOnlyAdaptedWithAutoSave ==
    Served =>
        /\ \A hk \in ChangedKeys(adaptive_store, prev_store) :
              /\ hk[1] = Site
              /\ request.auto_save
              /\ \E i \in Items : KeyOf(i) = hk[2] /\ AdaptedCase(i)
        /\ DOMAIN adaptive_store = DOMAIN prev_store
        /\ ~request.auto_save => adaptive_store = prev_store
        /\ request.selectors = <<>> => adaptive_store = prev_store
        /\ (\A i \in Items : ~AdaptedCase(i)) => adaptive_store = prev_store
        /\ (response.success /\ KeysOf(response.adaptive_selectors) = {}) =>
              adaptive_store = prev_store

\* C16 witness: with auto_save off a field was adapted through its stored
\* selector, with matches, and reported so; the store is what it was.
C16_Witness ==
    /\ Served /\ response.success /\ ~request.auto_save
    /\ \E i \in Items :
          /\ AdaptedCase(i)
          /\ KeyOf(i) \in KeysOf(response.adaptive_selectors)
          /\ prev_store[Site][KeyOf(i)].original # SelectorOf(i)
    /\ adaptive_store = prev_store

\* C17: whatever the interleaving of suspended scrapes, other scrapes and
\* updates, the store holds for every (site, field) key exactly the value
\* that the latest assignment to that key stored, and has a mapping for a
\* key exactly when something was assigned to it.
C17_LastWriteWins ==
    /\ StoreKeys(adaptive_store) = StoreKeys(last_write)
    /\ \A hk \in StoreKeys(adaptive_store) :
          adaptive_store[hk[1]][hk[2]] = last_write[hk[1]][hk[2]]

\* C17 witness: updates and a scrape's save have written the mapping of the
\* same key (the save came last) while two other scrapes for that key, with
\* different requested selectors, are suspended at their fetch.
C17_Witness ==
    /\ n_updates = 2
    /\ \A h \in {1, 2} :
          /\ inflight[h] # NoRequest
          /\ inflight[h].auto_save
    /\ inflight[1].selectors # inflight[2].selectors
    /\ \A h \in {1, 2} : inflight[h].selectors[1][1] = "title"
    /\ HasMapping(adaptive_store, Md5("example.com"), "title")
    /\ adaptive_store[Md5("example.com")]["title"].confidence = SavedConfidence

\* the site identity of a host, as a client computes it for an update call
SiteId(netloc) == <<"md5", netloc>>

\* a store holding the mappings of one site identity only
OnlySite(store, site) == [h \in (DOMAIN store) \cap {site} |-> store[h]]

\* the (site, field) keys a sequence of (field, value) assignments writes
WrittenKeys(site, writes) == {<<site, writes[k][1]>> : k \in 1..Len(writes)}

\* C18: an update for (s, f) changes the mapping at (s, f) and no other;
\* a scrape for site s changes only the mappings it saves, all of them of s,
\* and leaves every other site's mappings and the set of sites as they were;
\* what the scrape extracts, reports as adapted and saves is what it would
\* with a store holding the mappings of s alone.
C18_WritesAndReadsStayInSite ==
    [][/\ \A h \in SiteHosts, key \in Fields, selector \in SitePosted :
             update_adaptive_selector(Md5(h), key, selector) =>
                 /\ HasMapping(adaptive_store', SiteId(h), key)
                 /\ adaptive_store'[SiteId(h)][key] = selector
                 /\ ChangedKeys(adaptive_store', adaptive_store) \subseteq {<<SiteId(h), key>>}
                 /\ DOMAIN adaptive_store' = (DOMAIN adaptive_store) \cup {SiteId(h)}
       /\ \A pg \in SitePages :
             ScrapeFetched(pg) =>
                 LET site == SiteId(request.url.netloc)
                     full == Extract(adaptive_store, request, pg)
                     alone == Extract(OnlySite(adaptive_store, site), request, pg)
                 IN  /\ full.extracted_data = alone.extracted_data
                     /\ full.adaptive_selectors = alone.adaptive_selectors
                     /\ full.writes = alone.writes
                     /\ ChangedKeys(adaptive_store', adaptive_store)
                           \subseteq WrittenKeys(site, full.writes)
                     /\ \A k \in 1..Len(full.writes) :
                           adaptive_store'[site][full.writes[k][1]] = full.writes[k][2]
                     /\ DOMAIN adaptive_store' = DOMAIN adaptive_store
                     /\ pg.readable => response' = SuccessResponse(request, pg, alone)
      ]_vars

\* C18 witness: both sites hold mappings for both fields; a request for one
\* site has just saved its adaptation of title, and that site's price and the
\* other site's title and price are the mappings the clients posted.
C18_Witness ==
    /\ Served /\ request.auto_save
    /\ request.url.netloc = "example.com"
    /\ \A h \in SiteHosts, key \in Fields : HasMapping(adaptive_store, SiteId(h), key)
    /\ adaptive_store = [prev_store EXCEPT
                            ![SiteId("example.com")]["title"] =
                                SavedSelector("h1", ".t")]
    /\ adaptive_store # prev_store
    /\ adaptive_store[SiteId("shop.example")]["title"].original = "#old"

\* C19: a scrape adds no site identity and no field to the store and leaves
\* the adapted selector of every mapping as it was (it rewrites original,
\* confidence and last_updated of mappings that exist); so as long as no
\* update was made the store is empty.
C19_ScrapeAddsNoKeyNoAdapted ==
    /\ pc = "responded" =>
          /\ DOMAIN adaptive_store = DOMAIN prev_store
          /\ StoreKeys(adaptive_store) = StoreKeys(prev_store)
          /\ \A hk \in StoreKeys(prev_store) :
                adaptive_store[hk[1]][hk[2]].adapted = prev_store[hk[1]][hk[2]].adapted
    /\ n_updates = 0 => adaptive_store = EmptyDict

\* C19 witness: a request rewrote original, confidence and last_updated of a
\* mapping a client had posted, for a site of which it requested a second
\* field that has no mapping and got none.
C19_Witness ==
    /\ Served /\ request.auto_save
    /\ Len(request.selectors) = 2
    /\ StoreKeys(adaptive_store) = {<<Site, KeyOf(1)>>}
    /\ AdaptedCase(1)
    /\ page.css[SelectorOf(2)] = 0
    /\ prev_store[Site][KeyOf(1)].confidence = 50
    /\ prev_store[Site][KeyOf(1)].original = "#old"
    /\ adaptive_store[Site][KeyOf(1)].confidence = SavedConfidence
    /\ adaptive_store[Site][KeyOf(1)].original = SelectorOf(1)
    /\ adaptive_store[Site][KeyOf(1)].last_updated = "now"

\* C20 as stated: a request that returns success = false leaves the store
\* exactly as it found it, whether the fetch raised or a later step did.
C20_FailureLeavesStore ==
    (pc = "responded" /\ ~response.success) => adaptive_store = prev_store

====
